---- MODULE Spec2Model ----
(***************************************************************************)
(* Model of the appointment service (backend/services/appointment_service) *)
(* and of the stand-alone conflict detector (backend/utils/                *)
(* conflict_detector).                                                     *)
(*                                                                         *)
(* A time string "HH:MM" is modelled as the pair <<hour, minute>>.         *)
(* parse_time turns it into minutes counted from 1900-01-01 00:00 (the     *)
(* date strptime fills in), a timedelta adds minutes without wrapping, and *)
(* strftime('%H:%M') drops the day again.                                  *)
(* Python's None is the string None; an Optional[str] message is a        *)
(* sequence that is empty for None.                                        *)
(***************************************************************************)
EXTENDS Integers, Sequences, FiniteSets, TLC

VARIABLES appointments_db, last, nops, slots, threads

vars == <<appointments_db, last, nops, slots, threads>>

\* ------------------------------------------------------------------ bounds
\* Number of service calls in one behaviour of Spec.
MaxOps == 2

\* Number of service calls in one behaviour of SpecSeq.
MaxSeqOps == 3

\* Number of request threads calling create_appointment in SpecRace.
NumThreads == 2

\* -------------------------------------------------------- program constants
MinDuration == 15

MaxDuration == 240

DefaultBuffer == 5

None == "None"

StatusLiteral == {"Scheduled", "Confirmed", "Upcoming", "Completed", "Cancelled"}

CreateStatusLiteral == {"Scheduled", "Confirmed", "Upcoming"}

ModeLiteral == {"In-person", "Video", "Phone"}

InactiveStatuses == {"Cancelled", "Completed"}

\* datetime.utcnow().isoformat() + "Z"
UtcNow == "2025-12-27T08:00:00.000000Z"

SeedAppointments == <<
    [id |-> "apt-001", patient_name |-> "Rajesh Kumar", date |-> "2025-12-27", time |-> <<9, 0>>, duration |-> 30,
     doctor_name |-> "Dr. Sarah Johnson", status |-> "Confirmed", mode |-> "In-person", created_at |-> "2025-12-26T10:30:00Z"],
    [id |-> "apt-002", patient_name |-> "Priya Sharma", date |-> "2025-12-27", time |-> <<10, 0>>, duration |-> 45,
     doctor_name |-> "Dr. Rajesh Verma", status |-> "Scheduled", mode |-> "Video", created_at |-> "2025-12-26T11:00:00Z"],
    [id |-> "apt-003", patient_name |-> "Amit Patel", date |-> "2025-12-27", time |-> <<11, 30>>, duration |-> 30,
     doctor_name |-> "Dr. Sarah Johnson", status |-> "Upcoming", mode |-> "In-person", created_at |-> "2025-12-26T12:00:00Z"],
    [id |-> "apt-004", patient_name |-> "Sneha Reddy", date |-> "2025-12-28", time |-> <<14, 0>>, duration |-> 60,
     doctor_name |-> "Dr. Anjali Desai", status |-> "Confirmed", mode |-> "In-person", created_at |-> "2025-12-26T14:30:00Z"],
    [id |-> "apt-005", patient_name |-> "Vikram Singh", date |-> "2025-12-26", time |-> <<15, 30>>, duration |-> 30,
     doctor_name |-> "Dr. Sarah Johnson", status |-> "Completed", mode |-> "Phone", created_at |-> "2025-12-25T09:00:00Z"],
    [id |-> "apt-006", patient_name |-> "Lakshmi Iyer", date |-> "2025-12-29", time |-> <<9, 30>>, duration |-> 45,
     doctor_name |-> "Dr. Rajesh Verma", status |-> "Scheduled", mode |-> "Video", created_at |-> "2025-12-26T16:00:00Z"],
    [id |-> "apt-007", patient_name |-> "Arjun Mehta", date |-> "2025-12-30", time |-> <<11, 0>>, duration |-> 30,
     doctor_name |-> "Dr. Anjali Desai", status |-> "Scheduled", mode |-> "In-person", created_at |-> "2025-12-26T17:00:00Z"],
    [id |-> "apt-008", patient_name |-> "Kavya Nair", date |-> "2025-12-25", time |-> <<10, 0>>, duration |-> 60,
     doctor_name |-> "Dr. Sarah Johnson", status |-> "Cancelled", mode |-> "In-person", created_at |-> "2025-12-24T10:00:00Z"],
    [id |-> "apt-009", patient_name |-> "Rohit Kapoor", date |-> "2025-12-31", time |-> <<16, 0>>, duration |-> 30,
     doctor_name |-> "Dr. Rajesh Verma", status |-> "Upcoming", mode |-> "Video", created_at |-> "2025-12-26T18:00:00Z"],
    [id |-> "apt-010", patient_name |-> "Ananya Chatterjee", date |-> "2026-01-02", time |-> <<9, 0>>, duration |-> 45,
     doctor_name |-> "Dr. Anjali Desai", status |-> "Scheduled", mode |-> "In-person", created_at |-> "2025-12-26T19:00:00Z"],
    [id |-> "apt-011", patient_name |-> "Deepak Rao", date |-> "2025-12-28", time |-> <<10, 30>>, duration |-> 30,
     doctor_name |-> "Dr. Sarah Johnson", status |-> "Confirmed", mode |-> "In-person", created_at |-> "2025-12-26T20:00:00Z"],
    [id |-> "apt-012", patient_name |-> "Neha Gupta", date |-> "2025-12-29", time |-> <<15, 0>>, duration |-> 45,
     doctor_name |-> "Dr. Anjali Desai", status |-> "Upcoming", mode |-> "Video", created_at |-> "2025-12-26T21:00:00Z"]
  >>

\* ------------------------------------------------------- utility functions
\* datetime.strptime(time_str, '%H:%M'), as minutes from 1900-01-01 00:00.
parse_time(time_str) == time_str[1] * 60 + time_str[2]

\* datetime.strftime('%H:%M'): the day of the datetime is not printed.
strftime(dt) == <<(dt \div 60) % 24, dt % 60>>

calculate_end_time_buffered(start_time, duration) ==
    strftime(parse_time(start_time) + duration + DefaultBuffer)

calculate_end_time(start_time, duration) ==
    strftime(parse_time(start_time) + duration)

check_time_overlap_touch(start1, end1, start2, end2) ==
    /\ parse_time(start1) <= parse_time(end2)
    /\ parse_time(start2) <= parse_time(end1)

check_time_overlap(start1, end1, start2, end2) ==
    /\ parse_time(start1) < parse_time(end2)
    /\ parse_time(start2) < parse_time(end1)

AppointmentResponseValid_createLiteral(apt) ==
    /\ apt.status \in CreateStatusLiteral
    /\ apt.mode \in ModeLiteral
    /\ apt.duration >= MinDuration
    /\ apt.duration <= MaxDuration

\* Pydantic validation done by AppointmentResponse(**apt): the Literal and
\* range constraints on the fields a call can change.
AppointmentResponseValid(apt) ==
    /\ apt.status \in StatusLiteral
    /\ apt.mode \in ModeLiteral
    /\ apt.duration >= MinDuration
    /\ apt.duration <= MaxDuration

\* Python truthiness of an Optional[str] argument: `if value:`.
Truthy(value) == value # None /\ value # ""

\* Indices of the records with the given id, in store order.
IndicesOfId(db, appointment_id) ==
    {i \in 1..Len(db) : db[i].id = appointment_id}

Min(S) == CHOOSE x \in S : \A y \in S : x <= y

FirstMatch_orLast(db, appointment_id) ==
    IF IndicesOfId(db, appointment_id) = {} THEN Len(db)
    ELSE Min(IndicesOfId(db, appointment_id))

\* The position at which `for apt in appointments_db: if apt["id"] == id`
\* stops, 0 when the loop runs to its end.
FirstMatch(db, appointment_id) ==
    IF IndicesOfId(db, appointment_id) = {} THEN 0
    ELSE Min(IndicesOfId(db, appointment_id))

\* list.pop(i)
Pop(db, i) == SubSeq(db, 1, i - 1) \o SubSeq(db, i + 1, Len(db))

RECURSIVE Filter(_, _)
\* [apt for apt in seq if keep[apt]], keep given as a set of records.
Filter(seq, keep) ==
    IF seq = <<>> THEN <<>>
    ELSE IF Head(seq) \in keep THEN <<Head(seq)>> \o Filter(Tail(seq), keep)
         ELSE Filter(Tail(seq), keep)

Range(seq) == {seq[i] : i \in 1..Len(seq)}

NoCall == [op |-> "init", args |-> [none |-> None], err |-> "none", ret |-> <<>>]

Threads == 1..NumThreads

\* A request thread that has not entered create_appointment.
IdleThread == [pc |-> "idle", call |-> <<>>, err |-> "none"]

NoSlots == [slot1_start |-> <<0, 0>>, slot1_duration |-> 0,
            slot2_start |-> <<0, 0>>, slot2_duration |-> 0, buffer_minutes |-> 0]

\* ------------------------------------------------------- service operations
\* The conflict scan of create_appointment: the stored appointments that
\* make the loop raise.
ConflictingIndices(db, input_data) ==
    LET new_end_time == calculate_end_time(input_data.time, input_data.duration)
    IN {i \in 1..Len(db) :
          /\ db[i].doctor_name = input_data.doctor_name
          /\ db[i].date = input_data.date
          /\ db[i].status \notin InactiveStatuses
          /\ check_time_overlap(input_data.time, new_end_time,
                                db[i].time,
                                calculate_end_time(db[i].time, db[i].duration))}

NewAppointment(input_data, new_id) ==
    [id |-> new_id,
     patient_name |-> input_data.patient_name,
     date |-> input_data.date,
     time |-> input_data.time,
     duration |-> input_data.duration,
     doctor_name |-> input_data.doctor_name,
     status |-> IF Truthy(input_data.status) THEN input_data.status ELSE "Scheduled",
     mode |-> input_data.mode,
     created_at |-> UtcNow]

\* create_appointment(input_data), new_id being the value of
\* f"apt-{uuid4().hex[:8]}".
DoCreate(input_data, new_id) ==
    LET args == [input_data |-> input_data, new_id |-> new_id]
        new_appointment == NewAppointment(input_data, new_id)
    IN IF ConflictingIndices(appointments_db, input_data) # {}
       THEN /\ last' = [op |-> "create_appointment", args |-> args,
                        err |-> "Conflict", ret |-> <<>>]
            /\ UNCHANGED appointments_db
       ELSE /\ appointments_db' = Append(appointments_db, new_appointment)
            /\ last' = IF AppointmentResponseValid(new_appointment)
                       THEN [op |-> "create_appointment", args |-> args,
                             err |-> "none", ret |-> <<new_appointment>>]
                       ELSE [op |-> "create_appointment", args |-> args,
                             err |-> "ValidationError", ret |-> <<>>]

DoUpdateStatus_recheck(appointment_id, new_status) ==
    LET args == [appointment_id |-> appointment_id, new_status |-> new_status]
        i == FirstMatch(appointments_db, appointment_id)
    IN IF i = 0
       THEN /\ last' = [op |-> "update_appointment_status", args |-> args,
                        err |-> "NotFound", ret |-> <<>>]
            /\ UNCHANGED appointments_db
       ELSE IF /\ new_status \notin InactiveStatuses
               /\ ConflictingIndices(Pop(appointments_db, i), appointments_db[i]) # {}
       THEN /\ last' = [op |-> "update_appointment_status", args |-> args,
                        err |-> "Conflict", ret |-> <<>>]
            /\ UNCHANGED appointments_db
       ELSE /\ appointments_db' = [appointments_db EXCEPT ![i].status = new_status]
            /\ last' = IF AppointmentResponseValid(appointments_db'[i])
                       THEN [op |-> "update_appointment_status", args |-> args,
                             err |-> "none", ret |-> <<appointments_db'[i]>>]
                       ELSE [op |-> "update_appointment_status", args |-> args,
                             err |-> "ValidationError", ret |-> <<>>]

\* update_appointment_status(appointment_id, new_status)
DoUpdateStatus(appointment_id, new_status) ==
    LET args == [appointment_id |-> appointment_id, new_status |-> new_status]
        i == FirstMatch(appointments_db, appointment_id)
    IN IF i = 0
       THEN /\ last' = [op |-> "update_appointment_status", args |-> args,
                        err |-> "NotFound", ret |-> <<>>]
            /\ UNCHANGED appointments_db
       ELSE /\ appointments_db' = [appointments_db EXCEPT ![i].status = new_status]
            /\ last' = IF AppointmentResponseValid(appointments_db'[i])
                       THEN [op |-> "update_appointment_status", args |-> args,
                             err |-> "none", ret |-> <<appointments_db'[i]>>]
                       ELSE [op |-> "update_appointment_status", args |-> args,
                             err |-> "ValidationError", ret |-> <<>>]

\* delete_appointment(appointment_id); it returns True when err is "none".
DoDelete(appointment_id) ==
    LET args == [appointment_id |-> appointment_id]
        i == FirstMatch(appointments_db, appointment_id)
    IN IF i = 0
       THEN /\ last' = [op |-> "delete_appointment", args |-> args,
                        err |-> "NotFound", ret |-> <<>>]
            /\ UNCHANGED appointments_db
       ELSE /\ appointments_db' = Pop(appointments_db, i)
            /\ last' = [op |-> "delete_appointment", args |-> args,
                        err |-> "none", ret |-> <<>>]

\* The three list comprehensions of get_appointments.
FilteredAppointments(db, date, status, doctor_name) ==
    LET by_date == IF Truthy(date)
                   THEN Filter(db, {apt \in Range(db) : apt.date = date})
                   ELSE db
        by_status == IF Truthy(status)
                     THEN Filter(by_date, {apt \in Range(by_date) : apt.status = status})
                     ELSE by_date
    IN IF Truthy(doctor_name)
       THEN Filter(by_status, {apt \in Range(by_status) : apt.doctor_name = doctor_name})
       ELSE by_status

\* get_appointments(date, status, doctor_name)
DoGet(date, status, doctor_name) ==
    LET args == [date |-> date, status |-> status, doctor_name |-> doctor_name]
        filtered_appointments ==
            FilteredAppointments(appointments_db, date, status, doctor_name)
    IN /\ last' = IF \A apt \in Range(filtered_appointments) : AppointmentResponseValid(apt)
                  THEN [op |-> "get_appointments", args |-> args,
                        err |-> "none", ret |-> filtered_appointments]
                  ELSE [op |-> "get_appointments", args |-> args,
                        err |-> "ValidationError", ret |-> <<>>]
       /\ UNCHANGED appointments_db

\* ---------------------------------------------------------- input domains
Doctors == {"Dr. Sarah Johnson", "Dr. Rajesh Verma"}

Dates == {"2025-12-27", "2025-12-25"}

Times == {<<9, 15>>, <<9, 30>>, <<23, 30>>}

Durations == {15, 120}

\* Values of uuid4().hex[:8], prefixed.
NewIds == {"apt-1a2b3c4d", "apt-9f8e7d6c"}

\* Validated CreateAppointmentInput objects.
CreateInputs ==
    [patient_name : {"John Doe"}, date : Dates, time : Times,
     duration : Durations, doctor_name : Doctors, mode : {"Video"},
     status : {None, "Confirmed"}]

\* Ids passed to update and delete: two seeds, a generated id, an unknown one.
CallIds == {"apt-001", "apt-008", "apt-404", "apt-1a2b3c4d"}

\* Status strings reaching update_appointment_status through the mutation,
\* whose argument is a plain str.
StatusStrings == StatusLiteral \cup {"Bogus"}

DateFilters == {None, "", "2025-12-27"}

StatusFilters == {None, "", "Confirmed"}

DoctorFilters == {None, "Dr. Sarah Johnson"}

\* ------------------------------------------------------------ specification
Init ==
    /\ appointments_db = SeedAppointments
    /\ last = NoCall
    /\ nops = 0
    /\ slots = NoSlots
    /\ threads = [t \in Threads |-> IdleThread]

CreateAppointment ==
    /\ nops < MaxOps
    /\ \E input_data \in CreateInputs, new_id \in NewIds : DoCreate(input_data, new_id)
    /\ nops' = nops + 1
    /\ UNCHANGED <<slots, threads>>

UpdateAppointmentStatus ==
    /\ nops < MaxOps
    /\ \E appointment_id \in CallIds, new_status \in StatusStrings :
          DoUpdateStatus(appointment_id, new_status)
    /\ nops' = nops + 1
    /\ UNCHANGED <<slots, threads>>

DeleteAppointment ==
    /\ nops < MaxOps
    /\ \E appointment_id \in CallIds : DoDelete(appointment_id)
    /\ nops' = nops + 1
    /\ UNCHANGED <<slots, threads>>

GetAppointments ==
    /\ nops < MaxOps
    /\ \E date \in DateFilters, status \in StatusFilters, doctor_name \in DoctorFilters :
          DoGet(date, status, doctor_name)
    /\ nops' = nops + 1
    /\ UNCHANGED <<slots, threads>>

Next ==
    \/ CreateAppointment
    \/ UpdateAppointmentStatus
    \/ DeleteAppointment
    \/ GetAppointments

Spec == Init /\ [][Next]_vars

\* Sequential runs made of create_appointment and delete_appointment calls only.
NextCreateDelete ==
    \/ CreateAppointment
    \/ DeleteAppointment

SpecCreateDelete == Init /\ [][NextCreateDelete]_vars

\* ------------------------------------------- longer runs over fewer inputs
SeqCreateInputs ==
    [patient_name : {"John Doe"}, date : {"2025-12-27"}, time : {<<9, 15>>, <<9, 30>>},
     duration : {15}, doctor_name : Doctors, mode : {"Video"}, status : {None}]

SeqUpdateIds == {"apt-001", "apt-1a2b3c4d"}

SeqStatusStrings == {"Cancelled", "Confirmed", "Bogus"}

SeqDeleteIds == {"apt-001", "apt-1a2b3c4d", "apt-404"}

SeqCreate ==
    /\ nops < MaxSeqOps
    /\ \E input_data \in SeqCreateInputs, new_id \in NewIds : DoCreate(input_data, new_id)
    /\ nops' = nops + 1
    /\ UNCHANGED <<slots, threads>>

SeqUpdate ==
    /\ nops < MaxSeqOps
    /\ \E appointment_id \in SeqUpdateIds, new_status \in SeqStatusStrings :
          DoUpdateStatus(appointment_id, new_status)
    /\ nops' = nops + 1
    /\ UNCHANGED <<slots, threads>>

SeqDelete ==
    /\ nops < MaxSeqOps
    /\ \E appointment_id \in SeqDeleteIds : DoDelete(appointment_id)
    /\ nops' = nops + 1
    /\ UNCHANGED <<slots, threads>>

SeqGet ==
    /\ nops < MaxSeqOps
    /\ \E status \in {None, "Confirmed"}, doctor_name \in DoctorFilters :
          DoGet(None, status, doctor_name)
    /\ nops' = nops + 1
    /\ UNCHANGED <<slots, threads>>

NextSeq ==
    \/ SeqCreate
    \/ SeqUpdate
    \/ SeqDelete
    \/ SeqGet

SpecSeq == Init /\ [][NextSeq]_vars

\* ------------------------------------ create_appointment on request threads
\* The records the conflict scan of thread t iterates over:
\* `for existing_apt in appointments_db`.
ScannedRecords_withPending(db, th, t) ==
    LET pending == {u \in Threads \ {t} : th[u].pc = "scanned"}
        RECURSIVE Listed(_)
        Listed(U) == IF U = {} THEN <<>>
                     ELSE LET u == CHOOSE x \in U : TRUE
                          IN <<NewAppointment(th[u].call[1].input_data,
                                              th[u].call[1].new_id)>>
                             \o Listed(U \ {u})
    IN db \o Listed(pending)

ScannedRecords(db, th, t) == db

RaceInputs ==
    [patient_name : {"John Doe"}, date : {"2025-12-27"}, time : {<<9, 30>>, <<9, 45>>},
     duration : {15, 30}, doctor_name : Doctors, mode : {"Video"}, status : {None}]

\* Lines 273-298 of create_appointment on thread t: the id, the end time and
\* the conflict scan over the shared list, which takes no lock.
RaceScan(t) ==
    /\ threads[t].pc = "idle"
    /\ \E input_data \in RaceInputs, new_id \in NewIds :
          threads' = [threads EXCEPT ![t] =
              IF ConflictingIndices(ScannedRecords(appointments_db, threads, t),
                                    input_data) # {}
              THEN [pc |-> "done",
                    call |-> <<[input_data |-> input_data, new_id |-> new_id]>>,
                    err |-> "Conflict"]
              ELSE [pc |-> "scanned",
                    call |-> <<[input_data |-> input_data, new_id |-> new_id]>>,
                    err |-> "none"]]
    /\ UNCHANGED <<appointments_db, last, nops, slots>>

\* Lines 301-324 of create_appointment on thread t: build the record and
\* append it to the shared list.
RaceAppend(t) ==
    /\ threads[t].pc = "scanned"
    /\ appointments_db' =
          Append(appointments_db,
                 NewAppointment(threads[t].call[1].input_data, threads[t].call[1].new_id))
    /\ threads' = [threads EXCEPT ![t].pc = "done"]
    /\ UNCHANGED <<last, nops, slots>>

NextRace ==
    \/ \E t \in Threads : RaceScan(t)
    \/ \E t \in Threads : RaceAppend(t)

SpecRace == Init /\ [][NextRace]_vars

\* ------------------------------------------------------- conflict detector
\* time_obj.hour * 60 + time_obj.minute
time_to_minutes(time_str) == time_str[1] * 60 + time_str[2]

add_minutes(time_str, minutes) == strftime(parse_time(time_str) + minutes)

\* The message is modelled by the four times it prints.
ConflictMessage(slot1_start, slot1_duration, slot2_start, slot2_duration) ==
    <<slot1_start, add_minutes(slot1_start, slot1_duration),
      slot2_start, add_minutes(slot2_start, slot2_duration)>>

detect_overlap_inclusive(slot1_start, slot1_duration, slot2_start, slot2_duration, buffer_minutes) ==
    LET start1 == time_to_minutes(slot1_start)
        end1 == start1 + slot1_duration + buffer_minutes
        start2 == time_to_minutes(slot2_start)
        end2 == start2 + slot2_duration + buffer_minutes
    IN IF start1 <= end2 /\ start2 <= end1
       THEN [has_conflict |-> TRUE,
             conflict_message |-> ConflictMessage(slot1_start, slot1_duration,
                                                  slot2_start, slot2_duration)]
       ELSE [has_conflict |-> FALSE, conflict_message |-> <<>>]

detect_overlap_unbuffered1(slot1_start, slot1_duration, slot2_start, slot2_duration, buffer_minutes) ==
    LET start1 == time_to_minutes(slot1_start)
        end1 == start1 + slot1_duration
        start2 == time_to_minutes(slot2_start)
        end2 == start2 + slot2_duration + buffer_minutes
    IN IF start1 < end2 /\ start2 < end1
       THEN [has_conflict |-> TRUE,
             conflict_message |-> ConflictMessage(slot1_start, slot1_duration,
                                                  slot2_start, slot2_duration)]
       ELSE [has_conflict |-> FALSE, conflict_message |-> <<>>]

detect_overlap(slot1_start, slot1_duration, slot2_start, slot2_duration, buffer_minutes) ==
    LET start1 == time_to_minutes(slot1_start)
        end1 == start1 + slot1_duration + buffer_minutes
        start2 == time_to_minutes(slot2_start)
        end2 == start2 + slot2_duration + buffer_minutes
    IN IF start1 < end2 /\ start2 < end1
       THEN [has_conflict |-> TRUE,
             conflict_message |-> ConflictMessage(slot1_start, slot1_duration,
                                                  slot2_start, slot2_duration)]
       ELSE [has_conflict |-> FALSE, conflict_message |-> <<>>]

MinHourDefault == 8

MaxHourDefault == 20

validate_business_hours_inclusive(time_str, min_hour, max_hour) ==
    LET time_obj == parse_time(time_str)
        hour == (time_obj \div 60) % 24
    IN min_hour <= hour /\ hour <= max_hour

validate_business_hours(time_str, min_hour, max_hour) ==
    LET time_obj == parse_time(time_str)
        hour == (time_obj \div 60) % 24
    IN min_hour <= hour /\ hour < max_hour

HourBounds == {0, 8, 20}

PureTimes == {<<0, 0>>, <<8, 0>>, <<9, 0>>, <<9, 30>>, <<9, 35>>, <<19, 59>>, <<20, 0>>, <<23, 50>>}

PureDurations == {0, 5, 30, 35, 240}

Buffers == {0, 5, 10}

PureSlots ==
    [slot1_start : PureTimes, slot1_duration : PureDurations,
     slot2_start : PureTimes, slot2_duration : PureDurations,
     buffer_minutes : Buffers]

InitPure ==
    /\ appointments_db = SeedAppointments
    /\ last = NoCall
    /\ nops = 0
    /\ slots \in PureSlots
    /\ threads = [t \in Threads |-> IdleThread]

\* detect_overlap called with an explicit buffer_minutes.
DetectOverlap ==
    /\ last' = [op |-> "detect_overlap",
                args |-> slots,
                err |-> "none",
                ret |-> detect_overlap(slots.slot1_start, slots.slot1_duration,
                                       slots.slot2_start, slots.slot2_duration,
                                       slots.buffer_minutes)]
    /\ UNCHANGED <<appointments_db, nops, slots, threads>>

\* detect_overlap called without buffer_minutes: the default applies.
DetectOverlapDefault ==
    /\ last' = [op |-> "detect_overlap",
                args |-> [slots EXCEPT !.buffer_minutes = DefaultBuffer],
                err |-> "none",
                ret |-> detect_overlap(slots.slot1_start, slots.slot1_duration,
                                       slots.slot2_start, slots.slot2_duration,
                                       DefaultBuffer)]
    /\ UNCHANGED <<appointments_db, nops, slots, threads>>

\* validate_business_hours called with explicit hour limits.
ValidateBusinessHours ==
    /\ \E min_hour \in HourBounds, max_hour \in HourBounds :
          last' = [op |-> "validate_business_hours",
                   args |-> [time_str |-> slots.slot1_start,
                             min_hour |-> min_hour, max_hour |-> max_hour],
                   err |-> "none",
                   ret |-> validate_business_hours(slots.slot1_start, min_hour, max_hour)]
    /\ UNCHANGED <<appointments_db, nops, slots, threads>>

\* validate_business_hours called with the time only: the defaults apply.
ValidateBusinessHoursDefault ==
    /\ last' = [op |-> "validate_business_hours",
                args |-> [time_str |-> slots.slot1_start,
                          min_hour |-> MinHourDefault, max_hour |-> MaxHourDefault],
                err |-> "none",
                ret |-> validate_business_hours(slots.slot1_start,
                                                MinHourDefault, MaxHourDefault)]
    /\ UNCHANGED <<appointments_db, nops, slots, threads>>

\* The two overlap checks on the same pair of slots: the one of the create
\* path, check_time_overlap on the starts and their calculate_end_time ends,
\* and detect_overlap on the starts and durations.
PlainAndBufferedOverlap ==
    /\ last' = [op |-> "overlap_checks",
                args |-> slots,
                err |-> "none",
                ret |-> [plain |->
                            check_time_overlap(
                                slots.slot1_start,
                                calculate_end_time(slots.slot1_start, slots.slot1_duration),
                                slots.slot2_start,
                                calculate_end_time(slots.slot2_start, slots.slot2_duration)),
                         buffered |->
                            detect_overlap(slots.slot1_start, slots.slot1_duration,
                                           slots.slot2_start, slots.slot2_duration,
                                           slots.buffer_minutes).has_conflict]]
    /\ UNCHANGED <<appointments_db, nops, slots, threads>>

NextPure ==
    \/ DetectOverlap
    \/ DetectOverlapDefault
    \/ ValidateBusinessHours
    \/ ValidateBusinessHoursDefault
    \/ PlainAndBufferedOverlap

SpecPure == InitPure /\ [][NextPure]_vars

\* ================================================================== claims
\* Start of a slot in minutes since midnight of the appointment's date.
StartMinute(time_str) == time_str[1] * 60 + time_str[2]

\* Interval overlap of [start, start + duration) in minutes, no wrapping.
SlotsOverlap(time1, duration1, time2, duration2) ==
    /\ StartMinute(time1) < StartMinute(time2) + duration2
    /\ StartMinute(time2) < StartMinute(time1) + duration1

\* Stored appointments of the same doctor and date, not Cancelled or
\* Completed, whose interval overlaps the requested one.
ActiveOverlapping(db, input_data) ==
    {i \in 1..Len(db) :
        /\ db[i].doctor_name = input_data.doctor_name
        /\ db[i].date = input_data.date
        /\ db[i].status \notin {"Cancelled", "Completed"}
        /\ SlotsOverlap(input_data.time, input_data.duration,
                        db[i].time, db[i].duration)}

\* C1: a create_appointment call fails with Conflict whenever the store
\* holds an active appointment of the same doctor and date whose interval
\* [start, start + duration) overlaps the requested one.
C1_ConflictOnEveryOverlap ==
    [][(/\ last'.op = "create_appointment"
        /\ ActiveOverlapping(appointments_db, last'.args.input_data) # {})
       => last'.err = "Conflict"]_vars

\* C2: a create_appointment call succeeds, appends exactly the requested
\* record and returns it whenever no active appointment of the same doctor
\* and date overlaps the requested slot.
C2_CreateSucceedsWhenFree ==
    [][(/\ last'.op = "create_appointment"
        /\ ActiveOverlapping(appointments_db, last'.args.input_data) = {})
       => LET input_data == last'.args.input_data
              n == Len(appointments_db)
          IN /\ last'.err = "none"
             /\ Len(appointments_db') = n + 1
             /\ SubSeq(appointments_db', 1, n) = appointments_db
             /\ appointments_db'[n + 1].id = last'.args.new_id
             /\ appointments_db'[n + 1].patient_name = input_data.patient_name
             /\ appointments_db'[n + 1].doctor_name = input_data.doctor_name
             /\ appointments_db'[n + 1].date = input_data.date
             /\ appointments_db'[n + 1].time = input_data.time
             /\ appointments_db'[n + 1].duration = input_data.duration
             /\ appointments_db'[n + 1].mode = input_data.mode
             /\ appointments_db'[n + 1].status =
                   (IF input_data.status = None THEN "Scheduled" ELSE input_data.status)
             /\ last'.ret = <<appointments_db'[n + 1]>>]_vars

\* A create succeeded although its slot starts where an active appointment
\* of the same doctor and date ends and ends where another one starts, and
\* although it overlaps appointments of another doctor and of another date.
C2_Witness ==
    /\ last.op = "create_appointment"
    /\ last.err = "none"
    /\ LET input_data == last.args.input_data
           older == 1..(Len(appointments_db) - 1)
           same(i) == /\ appointments_db[i].doctor_name = input_data.doctor_name
                      /\ appointments_db[i].date = input_data.date
                      /\ appointments_db[i].status \notin {"Cancelled", "Completed"}
           over(i) == SlotsOverlap(input_data.time, input_data.duration,
                                   appointments_db[i].time, appointments_db[i].duration)
       IN /\ \E i \in older :
                /\ same(i)
                /\ StartMinute(appointments_db[i].time) + appointments_db[i].duration
                      = StartMinute(input_data.time)
          /\ \E i \in older :
                /\ same(i)
                /\ StartMinute(input_data.time) + input_data.duration
                      = StartMinute(appointments_db[i].time)
          /\ \E i \in older :
                /\ appointments_db[i].doctor_name # input_data.doctor_name
                /\ appointments_db[i].date = input_data.date
                /\ over(i)
          /\ \E i \in older :
                /\ appointments_db[i].doctor_name = input_data.doctor_name
                /\ appointments_db[i].date # input_data.date
                /\ over(i)

\* C3: no two appointment records of the store have the same id (an insert
\* of an id already present would have to fail for this to hold).
C3_IdsUnique ==
    \A i, j \in 1..Len(appointments_db) :
        i # j => appointments_db[i].id # appointments_db[j].id

\* C4: every stored appointment's status is one of the five enumerated
\* values.
C4_StatusEnumerated ==
    \A i \in 1..Len(appointments_db) :
        appointments_db[i].status \in
            {"Scheduled", "Confirmed", "Upcoming", "Completed", "Cancelled"}

\* C5: update_appointment_status and delete_appointment on an id that no
\* stored appointment has fail with NotFound and leave the store unchanged.
C5_UnknownIdNotFound ==
    [][(/\ last'.op \in {"update_appointment_status", "delete_appointment"}
        /\ \A i \in 1..Len(appointments_db) :
              appointments_db[i].id # last'.args.appointment_id)
       => /\ last'.err = "NotFound"
          /\ appointments_db' = appointments_db]_vars

\* An update of a seeded id fails with NotFound: the record was deleted by
\* an earlier call.
C5_Witness ==
    /\ last.op = "update_appointment_status"
    /\ last.err = "NotFound"
    /\ last.args.appointment_id = "apt-001"
    /\ Len(appointments_db) = Len(SeedAppointments) - 1

\* C6: after delete_appointment(id) returns true the store has no record
\* with that id, exactly one record was removed and the other records keep
\* their content and order.
C6_DeleteRemovesId ==
    [][(/\ last'.op = "delete_appointment"
        /\ last'.err = "none")
       => /\ \A i \in 1..Len(appointments_db') :
                appointments_db'[i].id # last'.args.appointment_id
          /\ Len(appointments_db') = Len(appointments_db) - 1
          /\ \E k \in 1..Len(appointments_db) :
                /\ appointments_db[k].id = last'.args.appointment_id
                /\ \A i \in 1..(k - 1) : appointments_db'[i] = appointments_db[i]
                /\ \A i \in k..Len(appointments_db') :
                      appointments_db'[i] = appointments_db[i + 1]]_vars

\* C7: update_appointment_status of a stored id to any of the five statuses
\* succeeds from every current status; the first record with that id, which
\* is also the returned record, gets the new status, and nothing else in
\* the store changes.
C7_UpdateSetsOnlyStatus ==
    [][(/\ last'.op = "update_appointment_status"
        /\ last'.args.new_status \in
              {"Scheduled", "Confirmed", "Upcoming", "Completed", "Cancelled"}
        /\ \E i \in 1..Len(appointments_db) :
              appointments_db[i].id = last'.args.appointment_id)
       => LET k == CHOOSE i \in 1..Len(appointments_db) :
                      /\ appointments_db[i].id = last'.args.appointment_id
                      /\ \A j \in 1..(i - 1) :
                            appointments_db[j].id # last'.args.appointment_id
          IN /\ last'.err = "none"
             /\ Len(appointments_db') = Len(appointments_db)
             /\ \A j \in 1..Len(appointments_db) :
                   j # k => appointments_db'[j] = appointments_db[j]
             /\ appointments_db'[k].status = last'.args.new_status
             /\ \A f \in {"id", "patient_name", "date", "time", "duration",
                          "doctor_name", "mode", "created_at"} :
                   appointments_db'[k][f] = appointments_db[k][f]
             /\ last'.ret = <<appointments_db'[k]>>]_vars

\* The seeded Cancelled appointment was put back to Scheduled.
C7_Witness ==
    /\ last.op = "update_appointment_status"
    /\ last.err = "none"
    /\ last.args.appointment_id = "apt-008"
    /\ last.args.new_status = "Scheduled"
    /\ \E i \in 1..Len(appointments_db) :
          /\ appointments_db[i].id = "apt-008"
          /\ appointments_db[i].status = "Scheduled"

\* C8: get_appointments returns exactly the stored appointments that equal
\* every provided filter value, each once, in store order; a filter that is
\* not provided (None) excludes nothing.
C8_GetReturnsMatches ==
    last.op = "get_appointments"
    => /\ last.err = "none"
       /\ last.ret =
            Filter(appointments_db,
                   {apt \in Range(appointments_db) :
                       /\ last.args.date = None \/ apt.date = last.args.date
                       /\ last.args.status = None \/ apt.status = last.args.status
                       /\ last.args.doctor_name = None
                            \/ apt.doctor_name = last.args.doctor_name})

\* C9: detect_overlap reports a conflict, with a message, exactly when
\* start1 < start2 + duration2 + buffer and start2 < start1 + duration1 +
\* buffer in minutes since midnight, and otherwise reports none and no
\* message.
C9_DetectOverlapIff ==
    last.op = "detect_overlap"
    => LET a == last.args
           overlap ==
              /\ StartMinute(a.slot1_start)
                    < StartMinute(a.slot2_start) + a.slot2_duration + a.buffer_minutes
              /\ StartMinute(a.slot2_start)
                    < StartMinute(a.slot1_start) + a.slot1_duration + a.buffer_minutes
       IN /\ last.ret.has_conflict = overlap
          /\ overlap => last.ret.conflict_message # <<>>
          /\ ~overlap => last.ret.conflict_message = <<>>

\* A conflict is reported between slots separated by a gap that is shorter
\* than the buffer.
C9_Witness ==
    /\ last.op = "detect_overlap"
    /\ last.ret.has_conflict
    /\ last.args.buffer_minutes = 10
    /\ last.args.slot1_duration > 0
    /\ StartMinute(last.args.slot2_start)
          = StartMinute(last.args.slot1_start) + last.args.slot1_duration + 5

\* C10: for slots with zero gap (start2 = start1 + duration1) detect_overlap
\* reports no conflict with buffer 0 and a conflict with the default buffer.
C10_ZeroGap ==
    (/\ last.op = "detect_overlap"
     /\ StartMinute(last.args.slot2_start)
           = StartMinute(last.args.slot1_start) + last.args.slot1_duration)
    => /\ last.args.buffer_minutes = 0 => ~last.ret.has_conflict
       /\ last.args.buffer_minutes = DefaultBuffer => last.ret.has_conflict

\* The default-buffer call reported a conflict for two back-to-back slots.
C10_Witness ==
    /\ last.op = "detect_overlap"
    /\ last.args.buffer_minutes = DefaultBuffer
    /\ last.args.slot1_duration > 0
    /\ last.args.slot2_duration > 0
    /\ StartMinute(last.args.slot2_start)
          = StartMinute(last.args.slot1_start) + last.args.slot1_duration
    /\ last.ret.has_conflict

C16_PlainImpliesBuffered ==
    (/\ last.op = "overlap_checks"
     /\ last.args.slot1_duration \in 15..240
     /\ last.args.slot2_duration \in 15..240
     /\ last.ret.plain)
    => last.ret.buffered

\* Both checks report an overlap for two properly overlapping slots under a
\* zero buffer.
C16_Witness ==
    /\ last.op = "overlap_checks"
    /\ last.args.slot1_duration \in 15..240
    /\ last.args.slot2_duration \in 15..240
    /\ last.args.buffer_minutes = 0
    /\ last.args.slot1_start # last.args.slot2_start
    /\ last.ret.plain
    /\ last.ret.buffered

\* C12: after any sequence of create_appointment and delete_appointment
\* calls no two stored appointments of the same doctor and date, both
\* neither Cancelled nor Completed, have overlapping intervals
\* [time, time + duration).
C12_NoDoubleBooking ==
    \A i, j \in 1..Len(appointments_db) :
        (/\ i # j
         /\ appointments_db[i].doctor_name = appointments_db[j].doctor_name
         /\ appointments_db[i].date = appointments_db[j].date
         /\ appointments_db[i].status \notin {"Cancelled", "Completed"}
         /\ appointments_db[j].status \notin {"Cancelled", "Completed"})
        => ~SlotsOverlap(appointments_db[i].time, appointments_db[i].duration,
                         appointments_db[j].time, appointments_db[j].duration)

\* C13: a create_appointment, update_appointment_status or
\* delete_appointment call that ends in an error leaves the store exactly
\* as it was before the call.
C13_ErrorLeavesStore ==
    [][(/\ last'.op \in {"create_appointment", "update_appointment_status",
                         "delete_appointment"}
        /\ last'.err # "none")
       => appointments_db' = appointments_db]_vars

\* C15: update_appointment_status makes no conflict check: putting a
\* Cancelled or Completed appointment back to an active status succeeds
\* also when the store holds an active appointment of the same doctor and
\* date that overlaps it, and the store then holds both as active.
C15_ReactivationUnchecked ==
    [][(/\ last'.op = "update_appointment_status"
        /\ last'.args.new_status \in {"Scheduled", "Confirmed", "Upcoming"}
        /\ \E k, j \in 1..Len(appointments_db) :
              /\ k # j
              /\ appointments_db[k].id = last'.args.appointment_id
              /\ \A h \in 1..(k - 1) :
                    appointments_db[h].id # last'.args.appointment_id
              /\ appointments_db[k].status \in {"Cancelled", "Completed"}
              /\ appointments_db[j].doctor_name = appointments_db[k].doctor_name
              /\ appointments_db[j].date = appointments_db[k].date
              /\ appointments_db[j].status \notin {"Cancelled", "Completed"}
              /\ SlotsOverlap(appointments_db[k].time, appointments_db[k].duration,
                              appointments_db[j].time, appointments_db[j].duration))
       => /\ last'.err = "none"
          /\ \E k, j \in 1..Len(appointments_db') :
                /\ k # j
                /\ appointments_db'[k].id = last'.args.appointment_id
                /\ appointments_db'[k].status = last'.args.new_status
                /\ appointments_db'[j].doctor_name = appointments_db'[k].doctor_name
                /\ appointments_db'[j].date = appointments_db'[k].date
                /\ appointments_db'[j].status \notin {"Cancelled", "Completed"}
                /\ SlotsOverlap(appointments_db'[k].time, appointments_db'[k].duration,
                                appointments_db'[j].time, appointments_db'[j].duration)]_vars

\* apt-001, seeded as Confirmed, was cancelled, an overlapping appointment
\* was created for its doctor and date, and apt-001 was then confirmed
\* again: the store holds both as active.
C15_Witness ==
    /\ last.op = "update_appointment_status"
    /\ last.err = "none"
    /\ last.args.appointment_id = "apt-001"
    /\ last.args.new_status = "Confirmed"
    /\ nops = 3
    /\ \E k, j \in 1..Len(appointments_db) :
          /\ appointments_db[k].id = "apt-001"
          /\ appointments_db[k].status = "Confirmed"
          /\ appointments_db[j].id \in NewIds
          /\ appointments_db[j].doctor_name = appointments_db[k].doctor_name
          /\ appointments_db[j].date = appointments_db[k].date
          /\ appointments_db[j].status = "Scheduled"
          /\ SlotsOverlap(appointments_db[k].time, appointments_db[k].duration,
                          appointments_db[j].time, appointments_db[j].duration)

\* C14: the conflict scan and the append of create_appointment are not one
\* atomic step. A call whose scan meets no overlapping active appointment in
\* the store passes the scan whatever other calls are in flight, and a call
\* that passed its scan appends its record whatever was stored meanwhile;
\* so two interleaved calls for overlapping slots can both be stored.
C14_ScanThenInsertNotAtomic ==
    [][\A t \in Threads :
          /\ (/\ threads[t].pc = "idle"
              /\ threads'[t].pc # "idle"
              /\ ActiveOverlapping(appointments_db, threads'[t].call[1].input_data) = {})
             => /\ threads'[t].pc = "scanned"
                /\ threads'[t].err = "none"
          /\ (/\ threads[t].pc = "scanned"
              /\ threads'[t].pc = "done")
             => /\ threads'[t].err = "none"
                /\ Len(appointments_db') = Len(appointments_db) + 1
                /\ SubSeq(appointments_db', 1, Len(appointments_db)) = appointments_db
                /\ appointments_db'[Len(appointments_db')].id = threads[t].call[1].new_id
                /\ appointments_db'[Len(appointments_db')].time
                      = threads[t].call[1].input_data.time
                /\ appointments_db'[Len(appointments_db')].status = "Scheduled"]_vars

\* Both calls returned without error and the store holds their two records
\* as Scheduled appointments of one doctor and date with overlapping slots.
C14_Witness ==
    /\ \A t \in {1, 2} : threads[t].pc = "done" /\ threads[t].err = "none"
    /\ \E i, j \in (Len(SeedAppointments) + 1)..Len(appointments_db) :
          /\ i # j
          /\ appointments_db[i].doctor_name = appointments_db[j].doctor_name
          /\ appointments_db[i].date = appointments_db[j].date
          /\ appointments_db[i].status = "Scheduled"
          /\ appointments_db[j].status = "Scheduled"
          /\ appointments_db[i].time # appointments_db[j].time
          /\ SlotsOverlap(appointments_db[i].time, appointments_db[i].duration,
                          appointments_db[j].time, appointments_db[j].duration)

====
